---------------------------- MODULE Spec2Model ----------------------------
(***************************************************************************)
(* A model of src/core/session.c: the session object of the QUIC stack.    *)
(*                                                                         *)
(* Two specifications share the module:                                    *)
(*   Spec       connection membership, shutdown broadcast, open and close  *)
(*              of sessions, one step per access to shared memory;         *)
(*   SpecCache  the server (resumption) cache of one session.              *)
(***************************************************************************)
EXTENDS Integers, Sequences, FiniteSets, TLC

(***************************************************************************)
(* Bounds of the model.                                                    *)
(***************************************************************************)
NumConns == 2        \* connections, each driven by its own thread
NumCallers == 2      \* API threads, each making one shutdown or close call
MaxCalls == 3        \* register, unregister, shutdown and close calls in a run
NumCacheThreads == 2 \* threads calling into the server cache
MaxCacheOps == 3     \* cache calls in a run

Conns == 1 .. NumConns
Callers == 1 .. NumCallers
CacheThreads == 1 .. NumCacheThreads

(***************************************************************************)
(* Handles.  "S1" is opened under the registration "R" by                  *)
(* MsQuicSessionOpen; "S2" is the library's unregistered session, made by  *)
(* QuicSessionAlloc(NULL, ...), which exists from the start.               *)
(***************************************************************************)
NULL == "NULL"
TheRegistration == "R"
OwnedSessions == {"S1"}
UnownedSessions == {"S2"}
Sessions == OwnedSessions \cup UnownedSessions

FlagNone == "NONE"
FlagSilent == "SILENT"
ShutdownFlags == {FlagNone, FlagSilent}

(***************************************************************************)
(* A 64-bit error code is kept as its top two bits (hi) and its low 62     *)
(* bits (lo): the value is hi * 2^62 + lo.                                 *)
(***************************************************************************)
ZeroErrorCode == [hi |-> 0, lo |-> 0]
ErrorCodes == { [hi |-> 0, lo |-> 1], [hi |-> 1, lo |-> 0] }

\* a range check that lets every error code pass
ExceedsNothing(e) == FALSE

\* ErrorCode > QUIC_UINT62_MAX, QUIC_UINT62_MAX being 2^62 - 1
ExceedsUint62Max(e) == e.hi > 0

VARIABLES
    sess,        \* s -> the QUIC_SESSION: State ("unalloc" | "open" | "freed"),
                 \*      Registration, Rundown, Connections (head first),
                 \*      ConnectionsLock (held or not)
    reg,         \* the QUIC_REGISTRATION: Sessions, ConnectionRundown
    openStatus,  \* s -> the status the last MsQuicSessionOpen returned
    conn,        \* c -> the QUIC_CONNECTION: Session, Registration, Settings,
                 \*      BackUpOperUsed, BackUpOper, OperQueue (head first; another
                 \*      operation of the connection is already queued)
    connThread,  \* c -> the connection's thread: pc and the locals of its call
    caller,      \* t -> the API thread: pc and the locals of its call
    calls,       \* calls started
    hist         \* history: registrations less unregistrations, last calls

(***************************************************************************)
(* The server cache of a session (SpecCache).                              *)
(***************************************************************************)
VARIABLES
    ServerCache,      \* Session->ServerCache: the entries, in insertion order
    ServerCacheLock,  \* Session->ServerCacheLock
    SecConfigRefs,    \* k -> the reference count of security configuration k
    cacheThread,      \* t -> the cache thread: pc, locals and outputs
    cacheOps,         \* calls started
    cacheHist         \* history: per identity, the values last stored

cacheVars == <<ServerCache, ServerCacheLock, SecConfigRefs, cacheThread, cacheOps,
               cacheHist>>

memberVars == <<sess, reg, openStatus, conn, connThread, caller, calls, hist>>
vars == <<memberVars, cacheVars>>

(***************************************************************************)
(* The draining guard (QUIC_RUNDOWN_REF).                                  *)
(***************************************************************************)
QuicRundownInitialize == [RefCount |-> 1, Draining |-> FALSE]

\* the BOOLEAN QuicRundownAcquire returns
QuicRundownAcquireSucceeds(r) == ~r.Draining

QuicRundownAcquire(r) ==
    IF QuicRundownAcquireSucceeds(r) THEN [r EXCEPT !.RefCount = @ + 1] ELSE r

QuicRundownRelease(r) == [r EXCEPT !.RefCount = @ - 1]

\* the first half of QuicRundownReleaseAndWait: start draining, drop the own token
QuicRundownReleaseAndWaitBegin(r) == [RefCount |-> r.RefCount - 1, Draining |-> TRUE]

\* the second half returns once a decrement has reached zero (the completion
\* signal is one-shot and stays set should the count go on falling)
QuicRundownWaitDone(r) == r.RefCount <= 0

(***************************************************************************)
(* Lists, locks and the connection's work queue.                           *)
(***************************************************************************)
QuicListInsertTail(list, e) == Append(list, e)

QuicListEntryRemove(list, e) == SelectSeq(list, LAMBDA x : x # e)

QuicListIsEmpty(list) == list = << >>

SeqToSet(list) == { list[i] : i \in 1 .. Len(list) }

\* QuicDispatchLockAcquire may proceed
QuicDispatchLockFree(lock) == ~lock

\* the work queue takes the operation ahead of everything queued
QuicConnQueueHighestPriorityOper(queue, oper) == << oper >> \o queue

\* or, at normal priority, behind it
QuicConnQueueOper(queue, oper) == Append(queue, oper)

(***************************************************************************)
(* Initial values.                                                         *)
(***************************************************************************)
\* QuicSessionAlloc, lines 38-64
QuicSessionAlloc(Registration) ==
    [State |-> "open", Registration |-> Registration,
     Rundown |-> QuicRundownInitialize, Connections |-> << >>,
     ConnectionsLock |-> FALSE]

NoSession == [QuicSessionAlloc(NULL) EXCEPT !.State = "unalloc"]

UnusedOper ==
    [FreeAfterProcess |-> FALSE, Type |-> "UNSET", ApiType |-> "UNSET",
     Flags |-> FlagNone, ErrorCode |-> ZeroErrorCode]

NewConnection ==
    [Session |-> NULL, Registration |-> NULL, Settings |-> NULL,
     BackUpOperUsed |-> 0, BackUpOper |-> UnusedOper, OperQueue |-> << "OTHER" >>]

IdleConnThread ==
    [pc |-> "idle", op |-> "none", Session |-> NULL, Old |-> NULL, Success |-> TRUE]

IdleCaller ==
    [pc |-> "idle", op |-> "none", Session |-> NULL, Flags |-> FlagNone,
     ErrorCode |-> ZeroErrorCode, Entry |-> 0, Walked |-> << >>, AllUnused |-> FALSE]

InitMembers ==
    /\ sess = [s \in Sessions |->
                IF s \in UnownedSessions THEN QuicSessionAlloc(NULL) ELSE NoSession]
    /\ reg = [Sessions |-> << >>, ConnectionRundown |-> QuicRundownInitialize]
    /\ openStatus = [s \in Sessions |-> "none"]
    /\ conn = [c \in Conns |-> NewConnection]
    /\ connThread = [c \in Conns |-> IdleConnThread]
    /\ caller = [t \in Callers |-> IdleCaller]
    /\ calls = 0
    /\ hist = [net |-> [s \in Sessions |-> 0],
               netCalls |-> 0,
               lastCall |-> [c \in Conns |-> "none"]]

(***************************************************************************)
(* The threads of a kind are interchangeable, and so are the connections:  *)
(* they make their first calls in the order of their numbers.              *)
(***************************************************************************)
\* a failed assertion or a fault ends the process
Running ==
    /\ \A c \in Conns : connThread[c].pc \notin {"aborted", "fault"}
    /\ \A t \in Callers : caller[t].pc # "fault"

ConnTurn(c) ==
    \A d \in Conns : d < c => (connThread[d].pc # "idle" \/ hist.lastCall[d] # "none")

CallerTurn(t) == \A u \in Callers : u < t => caller[u].pc # "idle"

(***************************************************************************)
(* MsQuicSessionOpen, lines 113-147.  The session is private to the caller *)
(* until the call returns, so the call is one step.                        *)
(***************************************************************************)
RegistrationHandles == {NULL, "NOT_A_REGISTRATION", TheRegistration}

\* an argument check that leaves out the test of the handle's Type
OpenStatusTypeUnchecked(RegistrationContext, NewSession, allocOk) ==
    IF RegistrationContext = NULL \/ NewSession = NULL
    THEN "INVALID_PARAMETER"
    ELSE IF ~allocOk THEN "OUT_OF_MEMORY" ELSE "SUCCESS"

\* lines 113-127: the status of the call
OpenStatus(RegistrationContext, NewSession, allocOk) ==
    IF RegistrationContext = NULL
       \/ RegistrationContext # TheRegistration
       \/ NewSession = NULL
    THEN "INVALID_PARAMETER"
    ELSE IF ~allocOk THEN "OUT_OF_MEMORY" ELSE "SUCCESS"

MsQuicSessionOpen(s, RegistrationContext, NewSession, allocOk) ==
    LET Status == OpenStatus(RegistrationContext, NewSession, allocOk) IN
    /\ Running
    /\ s \in OwnedSessions
    /\ sess[s].State = "unalloc"
    /\ openStatus' = [openStatus EXCEPT ![s] = Status]
    /\ IF Status = "SUCCESS"
       THEN /\ sess' = [sess EXCEPT ![s] = QuicSessionAlloc(RegistrationContext)]
            /\ reg' = [reg EXCEPT !.Sessions = QuicListInsertTail(@, s)]
       ELSE UNCHANGED <<sess, reg>>
    /\ UNCHANGED <<conn, connThread, caller, calls, hist, cacheVars>>

(***************************************************************************)
(* QuicSessionUnregisterConnection, lines 329-342.                         *)
(***************************************************************************)
\* a register that leaves out the call at line 299, and an unregister that
\* returns at once
UnregisterBeginSkipped(c, op, target) ==
    /\ UNCHANGED conn
    /\ connThread' = [connThread EXCEPT ![c] =
            [IdleConnThread EXCEPT !.pc = IF op = "register" THEN "r_acquire" ELSE "idle",
                                   !.op = IF op = "register" THEN op ELSE "none",
                                   !.Session = target]]

\* an unregister that leaves the back-reference set (line 333 left out)
UnregisterBeginKeepsSession(c, op, target) ==
    IF conn[c].Session = NULL
    THEN /\ UNCHANGED conn
         /\ connThread' = [connThread EXCEPT ![c] =
                [IdleConnThread EXCEPT !.pc = IF op = "register" THEN "r_acquire" ELSE "idle",
                                       !.op = IF op = "register" THEN op ELSE "none",
                                       !.Session = target]]
    ELSE /\ UNCHANGED conn
         /\ connThread' = [connThread EXCEPT ![c] =
                [IdleConnThread EXCEPT !.pc = "u_remove", !.op = op,
                                       !.Session = target, !.Old = conn[c].Session]]

\* lines 329-333: return early, or take and clear the back-reference
UnregisterBegin(c, op, target) ==
    IF conn[c].Session = NULL
    THEN /\ UNCHANGED conn
         /\ connThread' = [connThread EXCEPT ![c] =
                [IdleConnThread EXCEPT !.pc = IF op = "register" THEN "r_acquire" ELSE "idle",
                                       !.op = IF op = "register" THEN op ELSE "none",
                                       !.Session = target]]
    ELSE /\ conn' = [conn EXCEPT ![c].Session = NULL]
         /\ connThread' = [connThread EXCEPT ![c] =
                [IdleConnThread EXCEPT !.pc = "u_remove", !.op = op,
                                       !.Session = target, !.Old = conn[c].Session]]

UnregisterCall(c) ==
    /\ Running
    /\ connThread[c].pc = "idle"
    /\ ConnTurn(c)
    /\ calls < MaxCalls
    /\ calls' = calls + 1
    /\ UnregisterBegin(c, "unregister", NULL)
    /\ hist' = IF conn[c].Session = NULL
               THEN [hist EXCEPT !.netCalls = @ - 1, !.lastCall[c] = "unregister"]
               ELSE hist
    /\ UNCHANGED <<sess, reg, openStatus, caller, cacheVars>>

\* an unregister that leaves the connection in the list (line 340 left out)
UnregisterNoRemove(c) ==
    LET Session == connThread[c].Old IN
    /\ Running
    /\ connThread[c].pc = "u_remove"
    /\ QuicDispatchLockFree(sess[Session].ConnectionsLock)
    /\ connThread' = [connThread EXCEPT ![c].pc = "u_release"]
    /\ UNCHANGED <<sess, reg, openStatus, conn, caller, calls, hist, cacheVars>>

\* lines 339-341
UnregisterRemove(c) ==
    LET Session == connThread[c].Old IN
    /\ Running
    /\ connThread[c].pc = "u_remove"
    /\ QuicDispatchLockFree(sess[Session].ConnectionsLock)
    /\ sess' = [sess EXCEPT ![Session].Connections = QuicListEntryRemove(@, c)]
    /\ connThread' = [connThread EXCEPT ![c].pc = "u_release"]
    /\ UNCHANGED <<reg, openStatus, conn, caller, calls, hist, cacheVars>>

\* an unregister that leaves out the release of the token (line 342)
UnregisterNoRelease(c) ==
    LET Session == connThread[c].Old IN
    /\ Running
    /\ connThread[c].pc = "u_release"
    /\ IF connThread[c].op = "unregister"
       THEN /\ connThread' = [connThread EXCEPT ![c] = IdleConnThread]
            /\ hist' = [hist EXCEPT !.net[Session] = @ - 1,
                                    !.netCalls = @ - 1,
                                    !.lastCall[c] = "unregister"]
       ELSE /\ connThread' = [connThread EXCEPT ![c].pc = "r_acquire", ![c].Old = NULL]
            /\ hist' = [hist EXCEPT !.net[Session] = @ - 1]
    /\ UNCHANGED <<sess, reg, openStatus, conn, caller, calls, cacheVars>>

\* line 342, and the return
UnregisterRelease(c) ==
    LET Session == connThread[c].Old IN
    /\ Running
    /\ connThread[c].pc = "u_release"
    /\ sess' = [sess EXCEPT ![Session].Rundown = QuicRundownRelease(@)]
    /\ IF connThread[c].op = "unregister"
       THEN /\ connThread' = [connThread EXCEPT ![c] = IdleConnThread]
            /\ hist' = [hist EXCEPT !.net[Session] = @ - 1,
                                    !.netCalls = @ - 1,
                                    !.lastCall[c] = "unregister"]
       ELSE /\ connThread' = [connThread EXCEPT ![c].pc = "r_acquire", ![c].Old = NULL]
            /\ hist' = [hist EXCEPT !.net[Session] = @ - 1]
    /\ UNCHANGED <<reg, openStatus, conn, caller, calls, cacheVars>>

(***************************************************************************)
(* QuicSessionRegisterConnection, lines 299-320.                           *)
(***************************************************************************)
\* line 299: the call of QuicSessionUnregisterConnection
RegisterCall(c, s) ==
    /\ Running
    /\ connThread[c].pc = "idle"
    /\ ConnTurn(c)
    /\ sess[s].State = "open"
    /\ calls < MaxCalls
    /\ calls' = calls + 1
    /\ UnregisterBegin(c, "register", s)
    /\ UNCHANGED <<sess, reg, openStatus, caller, hist, cacheVars>>

\* a register that takes no token of the registration (line 304 left out)
RegisterAcquireSessionOnly(c) ==
    LET Session == connThread[c].Session IN
    /\ Running
    /\ connThread[c].pc = "r_acquire"
    /\ IF sess[Session].Registration # NULL
       THEN conn' = [conn EXCEPT ![c].Session = Session,
                                 ![c].Registration = sess[Session].Registration,
                                 ![c].Settings = Session]
       ELSE conn' = [conn EXCEPT ![c].Session = Session]
    /\ sess' = [sess EXCEPT ![Session].Rundown = QuicRundownAcquire(@)]
    /\ connThread' = [connThread EXCEPT
            ![c].pc = "r_insert",
            ![c].Success = QuicRundownAcquireSucceeds(sess[Session].Rundown)]
    /\ UNCHANGED <<reg, openStatus, caller, calls, hist, cacheVars>>

\* lines 300-316; QUIC_DBG_ASSERT(Success) is compiled out of a release build
RegisterAcquire(c) ==
    LET Session == connThread[c].Session IN
    /\ Running
    /\ connThread[c].pc = "r_acquire"
    /\ IF sess[Session].Registration # NULL
       THEN /\ conn' = [conn EXCEPT ![c].Session = Session,
                                    ![c].Registration = sess[Session].Registration,
                                    ![c].Settings = Session]
            /\ reg' = [reg EXCEPT !.ConnectionRundown = QuicRundownAcquire(@)]
       ELSE /\ conn' = [conn EXCEPT ![c].Session = Session]
            /\ UNCHANGED reg
    /\ sess' = [sess EXCEPT ![Session].Rundown = QuicRundownAcquire(@)]
    /\ connThread' = [connThread EXCEPT
            ![c].pc = "r_insert",
            ![c].Success = QuicRundownAcquireSucceeds(sess[Session].Rundown)]
    /\ UNCHANGED <<openStatus, caller, calls, hist, cacheVars>>

\* line 317 in a debug build: the failed acquire stops the process
RegisterAssert(c) ==
    /\ Running
    /\ connThread[c].pc = "r_insert"
    /\ ~connThread[c].Success
    /\ connThread' = [connThread EXCEPT ![c].pc = "aborted"]
    /\ UNCHANGED <<sess, reg, openStatus, conn, caller, calls, hist, cacheVars>>

\* a register that returns without the insert (line 319)
RegisterNoInsert(c) ==
    LET Session == connThread[c].Session IN
    /\ Running
    /\ connThread[c].pc = "r_insert"
    /\ QuicDispatchLockFree(sess[Session].ConnectionsLock)
    /\ connThread' = [connThread EXCEPT ![c] = IdleConnThread]
    /\ hist' = [hist EXCEPT !.net[Session] = @ + 1,
                            !.netCalls = @ + 1,
                            !.lastCall[c] = Session]
    /\ UNCHANGED <<sess, reg, openStatus, conn, caller, calls, cacheVars>>

\* lines 318-320, and the return
RegisterInsert(c) ==
    LET Session == connThread[c].Session IN
    /\ Running
    /\ connThread[c].pc = "r_insert"
    /\ QuicDispatchLockFree(sess[Session].ConnectionsLock)
    /\ sess' = [sess EXCEPT ![Session].Connections = QuicListInsertTail(@, c)]
    /\ connThread' = [connThread EXCEPT ![c] = IdleConnThread]
    /\ hist' = [hist EXCEPT !.net[Session] = @ + 1,
                            !.netCalls = @ + 1,
                            !.lastCall[c] = Session]
    /\ UNCHANGED <<reg, openStatus, conn, caller, calls, cacheVars>>

\* the session a connection's thread touches next
ConnTouches(c) ==
    IF connThread[c].pc \in {"u_remove", "u_release"} THEN connThread[c].Old
    ELSE IF connThread[c].pc \in {"r_acquire", "r_insert"} THEN connThread[c].Session
    ELSE NULL

\* a step on a session that MsQuicSessionFree has freed may also fault
ConnFault(c) ==
    /\ Running
    /\ ConnTouches(c) # NULL
    /\ sess[ConnTouches(c)].State = "freed"
    /\ connThread' = [connThread EXCEPT ![c].pc = "fault"]
    /\ UNCHANGED <<sess, reg, openStatus, conn, caller, calls, hist, cacheVars>>

(***************************************************************************)
(* MsQuicSessionShutdown, lines 215-260.  The walk holds ConnectionsLock   *)
(* from line 236 to line 260 and visits one entry per step.                *)
(***************************************************************************)
\* lines 212-217: the call, and the return on an error code out of range
ShutdownCall(t, s, Flags, ErrorCode) ==
    /\ Running
    /\ caller[t].pc = "idle"
    /\ CallerTurn(t)
    /\ sess[s].State = "open"
    /\ calls < MaxCalls
    /\ calls' = calls + 1
    /\ caller' = [caller EXCEPT ![t] =
            IF ExceedsUint62Max(ErrorCode)
            THEN [IdleCaller EXCEPT !.pc = "done", !.op = "shutdown",
                                    !.ErrorCode = ErrorCode]
            ELSE [IdleCaller EXCEPT !.pc = "sd_lock", !.op = "shutdown", !.Session = s,
                                    !.Flags = Flags, !.ErrorCode = ErrorCode]]
    /\ UNCHANGED <<sess, reg, openStatus, conn, connThread, hist, cacheVars>>

\* lines 236-238
ShutdownLock(t) ==
    LET s == caller[t].Session IN
    /\ Running
    /\ caller[t].pc = "sd_lock"
    /\ QuicDispatchLockFree(sess[s].ConnectionsLock)
    /\ sess' = [sess EXCEPT ![s].ConnectionsLock = TRUE]
    /\ caller' = [caller EXCEPT
            ![t].pc = "sd_walk",
            ![t].Entry = 1,
            ![t].Walked = sess[s].Connections,
            ![t].AllUnused = \A i \in 1 .. Len(sess[s].Connections) :
                                conn[sess[s].Connections[i]].BackUpOperUsed = 0]
    /\ UNCHANGED <<reg, openStatus, conn, connThread, calls, hist, cacheVars>>

\* a plain store in place of the compare-and-set: every caller wins
PlainStoreWins(used) == TRUE

\* InterlockedCompareExchange16(&BackUpOperUsed, 1, 0) == 0
CompareExchangeWins(used) == used = 0

\* a request that drops the caller's error code
ShutdownOperNoErrorCode(Flags, ErrorCode) ==
    [FreeAfterProcess |-> FALSE, Type |-> "API_CALL", ApiType |-> "CONN_SHUTDOWN",
     Flags |-> Flags, ErrorCode |-> ZeroErrorCode]

\* lines 247-253
ShutdownOper(Flags, ErrorCode) ==
    [FreeAfterProcess |-> FALSE, Type |-> "API_CALL", ApiType |-> "CONN_SHUTDOWN",
     Flags |-> Flags, ErrorCode |-> ErrorCode]

\* a turn of the loop that also takes the connection off the session
ShutdownVisitUnregisters(t) ==
    LET s == caller[t].Session
        c == sess[s].Connections[caller[t].Entry]
    IN
    /\ Running
    /\ caller[t].pc = "sd_walk"
    /\ caller[t].Entry <= Len(sess[s].Connections)
    /\ conn' = [conn EXCEPT
            ![c].Session = NULL,
            ![c].BackUpOperUsed = 1,
            ![c].BackUpOper = ShutdownOper(caller[t].Flags, caller[t].ErrorCode),
            ![c].OperQueue = IF conn[c].BackUpOperUsed = 0
                             THEN QuicConnQueueHighestPriorityOper(@, "BackUpOper")
                             ELSE @]
    /\ caller' = [caller EXCEPT ![t].Entry = @ + 1]
    /\ UNCHANGED <<sess, reg, openStatus, connThread, calls, hist, cacheVars>>

\* lines 239-258: one turn of the loop
ShutdownVisit(t) ==
    LET s == caller[t].Session
        c == sess[s].Connections[caller[t].Entry]
    IN
    /\ Running
    /\ caller[t].pc = "sd_walk"
    /\ caller[t].Entry <= Len(sess[s].Connections)
    /\ IF CompareExchangeWins(conn[c].BackUpOperUsed)
       THEN conn' = [conn EXCEPT
                ![c].BackUpOperUsed = 1,
                ![c].BackUpOper = ShutdownOper(caller[t].Flags, caller[t].ErrorCode),
                ![c].OperQueue = QuicConnQueueHighestPriorityOper(@, "BackUpOper")]
       ELSE UNCHANGED conn
    /\ caller' = [caller EXCEPT ![t].Entry = @ + 1]
    /\ UNCHANGED <<sess, reg, openStatus, connThread, calls, hist, cacheVars>>

\* line 260, and the return (into MsQuicSessionClose at line 195 if it made the call)
ShutdownUnlock(t) ==
    LET s == caller[t].Session IN
    /\ Running
    /\ caller[t].pc = "sd_walk"
    /\ caller[t].Entry > Len(sess[s].Connections)
    /\ sess' = [sess EXCEPT ![s].ConnectionsLock = FALSE]
    /\ caller' = [caller EXCEPT ![t] =
            IF caller[t].op = "close"
            THEN [IdleCaller EXCEPT !.pc = "cl_rundown", !.op = "close", !.Session = s]
            ELSE [IdleCaller EXCEPT !.pc = "done", !.op = "shutdown"]]
    /\ UNCHANGED <<reg, openStatus, conn, connThread, calls, hist, cacheVars>>

(***************************************************************************)
(* MsQuicSessionClose, lines 182-196, and MsQuicSessionFree.               *)
(***************************************************************************)
CloseStarted(s) == \E t \in Callers : caller[t].op = "close" /\ caller[t].Session = s

\* a close that leaves out the shutdown of the unregistered session (line 192)
CloseCallNoShutdown(t, s) ==
    /\ Running
    /\ caller[t].pc = "idle"
    /\ CallerTurn(t)
    /\ sess[s].State = "open"
    /\ ~CloseStarted(s)
    /\ calls < MaxCalls
    /\ calls' = calls + 1
    /\ reg' = IF sess[s].Registration # NULL
              THEN [reg EXCEPT !.Sessions = QuicListEntryRemove(@, s)]
              ELSE reg
    /\ caller' = [caller EXCEPT ![t] =
            [IdleCaller EXCEPT !.pc = "cl_rundown", !.op = "close", !.Session = s]]
    /\ UNCHANGED <<sess, openStatus, conn, connThread, hist, cacheVars>>

\* lines 182-193: unlink from the registration, or begin the silent shutdown
CloseCall(t, s) ==
    /\ Running
    /\ caller[t].pc = "idle"
    /\ CallerTurn(t)
    /\ sess[s].State = "open"
    /\ ~CloseStarted(s)
    /\ calls < MaxCalls
    /\ calls' = calls + 1
    /\ IF sess[s].Registration # NULL
       THEN /\ reg' = [reg EXCEPT !.Sessions = QuicListEntryRemove(@, s)]
            /\ caller' = [caller EXCEPT ![t] =
                    [IdleCaller EXCEPT !.pc = "cl_rundown", !.op = "close", !.Session = s]]
       ELSE /\ UNCHANGED reg
            /\ caller' = [caller EXCEPT ![t] =
                    [IdleCaller EXCEPT
                        !.pc = IF ExceedsUint62Max(ZeroErrorCode)
                               THEN "cl_rundown" ELSE "sd_lock",
                        !.op = "close", !.Session = s,
                        !.Flags = FlagSilent, !.ErrorCode = ZeroErrorCode]]
    /\ UNCHANGED <<sess, openStatus, conn, connThread, hist, cacheVars>>

\* line 195, entering QuicRundownReleaseAndWait
CloseRundown(t) ==
    LET s == caller[t].Session IN
    /\ Running
    /\ caller[t].pc = "cl_rundown"
    /\ sess' = [sess EXCEPT ![s].Rundown = QuicRundownReleaseAndWaitBegin(@)]
    /\ caller' = [caller EXCEPT ![t].pc = "cl_wait"]
    /\ UNCHANGED <<reg, openStatus, conn, connThread, calls, hist, cacheVars>>

\* line 195, QuicRundownReleaseAndWait returning
CloseWaitDone(t) ==
    LET s == caller[t].Session IN
    /\ Running
    /\ caller[t].pc = "cl_wait"
    /\ QuicRundownWaitDone(sess[s].Rundown)
    /\ caller' = [caller EXCEPT ![t].pc = "cl_free"]
    /\ UNCHANGED <<sess, reg, openStatus, conn, connThread, calls, hist, cacheVars>>

\* line 196: MsQuicSessionFree, lines 82-91
MsQuicSessionFree(t) ==
    LET s == caller[t].Session IN
    /\ Running
    /\ caller[t].pc = "cl_free"
    /\ sess' = [sess EXCEPT ![s].State = "freed"]
    /\ caller' = [caller EXCEPT ![t].pc = "done"]
    /\ UNCHANGED <<reg, openStatus, conn, connThread, calls, hist, cacheVars>>

\* line 82 where QUIC_TEL_ASSERT is fatal: the process stops before the free
SessionFreeAssert(t) ==
    LET s == caller[t].Session IN
    /\ Running
    /\ caller[t].pc = "cl_free"
    /\ ~QuicListIsEmpty(sess[s].Connections)
    /\ caller' = [caller EXCEPT ![t].pc = "fault"]
    /\ UNCHANGED <<sess, reg, openStatus, conn, connThread, calls, hist, cacheVars>>

\* a shutdown still running on a session that has been freed may also fault
CallerFault(t) ==
    /\ Running
    /\ caller[t].pc \in {"sd_lock", "sd_walk"}
    /\ sess[caller[t].Session].State = "freed"
    /\ caller' = [caller EXCEPT ![t].pc = "fault"]
    /\ UNCHANGED <<sess, reg, openStatus, conn, connThread, calls, hist, cacheVars>>

(***************************************************************************)
(* The membership specification.                                           *)
(***************************************************************************)
ConnNext(c) ==
    \/ UnregisterCall(c)
    \/ UnregisterRemove(c)
    \/ UnregisterRelease(c)
    \/ \E s \in Sessions : RegisterCall(c, s)
    \/ RegisterAcquire(c)
    \/ RegisterAssert(c)
    \/ RegisterInsert(c)
    \/ ConnFault(c)

CallerNext(t) ==
    \/ \E s \in Sessions, Flags \in ShutdownFlags, ErrorCode \in ErrorCodes :
            ShutdownCall(t, s, Flags, ErrorCode)
    \/ ShutdownLock(t)
    \/ ShutdownVisit(t)
    \/ ShutdownUnlock(t)
    \/ \E s \in Sessions : CloseCall(t, s)
    \/ CloseRundown(t)
    \/ CloseWaitDone(t)
    \/ MsQuicSessionFree(t)
    \/ SessionFreeAssert(t)
    \/ CallerFault(t)

OpenNext ==
    \E s \in OwnedSessions, RegistrationContext \in RegistrationHandles,
       NewSession \in {NULL, "OUT"}, allocOk \in BOOLEAN :
        MsQuicSessionOpen(s, RegistrationContext, NewSession, allocOk)

(***************************************************************************)
(* The server cache: QuicSessionServerCacheLookup, ...GetState and         *)
(* ...SetStateInternal, lines 348-472.                                     *)
(*                                                                         *)
(* The three server names all hash alike; <<1>> is a prefix of <<1, 2>>,   *)
(* and <<1, 2>> and <<2, 1>> have the same length.                         *)
(***************************************************************************)
ServerNames == { <<1>>, <<1, 2>>, <<2, 1>> }
SecConfigs == {"K1"}

\* the version, the transport parameters and the security configuration a set
\* is called with
CacheInputs ==
    { [QuicVersion |-> 1, TransportParameters |-> "P1", SecConfig |-> NULL],
      [QuicVersion |-> 2, TransportParameters |-> "P2", SecConfig |-> "K1"],
      [QuicVersion |-> 1, TransportParameters |-> "P2", SecConfig |-> "K1"] }

\* what memory QUIC_ALLOC_PAGED returns may hold where a pointer is read: NULL,
\* the address of a live security configuration, or no valid address
UninitializedPointers == {NULL, "WILD"} \cup SecConfigs

RECURSIVE SumBytes(_, _)
SumBytes(Name, n) == IF n = 0 THEN 0 ELSE Name[n] + SumBytes(Name, n - 1)

QuicHashSimple(Length, Name) == SumBytes(Name, Length) % 2

\* memcmp(a, b, n) == 0
MemEqual(a, b, n) == \A i \in 1 .. n : a[i] = b[i]

\* the positions of the entries QuicHashtableLookup and QuicHashtableLookupNext
\* enumerate
HashChain(table, Hash) ==
    SelectSeq([i \in 1 .. Len(table) |-> i], LAMBDA i : table[i].Hash = Hash)

QuicHashtableInsert(table, Entry, Hash) ==
    Append(table, [Entry EXCEPT !.Hash = Hash])

QuicRwLockInitialize == [Exclusive |-> FALSE, Shared |-> 0]

QuicRwLockSharedFree(lock) == ~lock.Exclusive

QuicRwLockExclusiveFree(lock) == ~lock.Exclusive /\ lock.Shared = 0

\* a comparison of the lengths alone
EntryMatchesLengthOnly(Temp, ServerNameLength, ServerName) ==
    Temp.ServerNameLength = ServerNameLength

\* lines 365-366
EntryMatches(Temp, ServerNameLength, ServerName) ==
    /\ Temp.ServerNameLength = ServerNameLength
    /\ MemEqual(Temp.ServerName, ServerName, ServerNameLength)

\* lines 362-372: the position in the table of the entry returned, 0 for NULL
RECURSIVE LookupFrom(_, _, _, _, _)
LookupFrom(table, chain, i, ServerNameLength, ServerName) ==
    IF i > Len(chain) THEN 0
    ELSE IF EntryMatches(table[chain[i]], ServerNameLength, ServerName) THEN chain[i]
    ELSE LookupFrom(table, chain, i + 1, ServerNameLength, ServerName)

\* a lookup that finds nothing
LookupNothing(table, ServerNameLength, ServerName, Hash) == 0

\* QuicSessionServerCacheLookup, lines 358-372
QuicSessionServerCacheLookup(table, ServerNameLength, ServerName, Hash) ==
    LookupFrom(table, HashChain(table, Hash), 1, ServerNameLength, ServerName)

NoValue == [QuicVersion |-> 0, TransportParameters |-> NULL]

IdleCacheThread ==
    [pc |-> "idle", op |-> "none", ServerName |-> << >>,
     QuicVersion |-> 0, Parameters |-> NULL, SecConfig |-> NULL,
     Found |-> FALSE, OutVersion |-> 0, OutParameters |-> "UNWRITTEN",
     OutSecConfig |-> "UNWRITTEN", Matched |-> << >>,
     Cache |-> 0,
     Expected |-> NoValue, ExpectedCalled |-> NoValue, ExpectedConfig |-> NULL]

InitCache ==
    /\ ServerCache = << >>
    /\ ServerCacheLock = QuicRwLockInitialize
    /\ SecConfigRefs = [k \in SecConfigs |-> 1]
    /\ cacheThread = [t \in CacheThreads |-> IdleCacheThread]
    /\ cacheOps = 0
    /\ cacheHist = [stored |-> [n \in ServerNames |-> NoValue],
                    called |-> [n \in ServerNames |-> NoValue],
                    config |-> [n \in ServerNames |-> NULL],
                    sets |-> [n \in ServerNames |-> 0]]

\* a fault ends the process
CacheRunning == \A t \in CacheThreads : cacheThread[t].pc # "fault"

\* the threads make their first calls in the order of their numbers
CacheTurn(t) ==
    \A u \in CacheThreads : u < t => (cacheThread[u].pc # "idle" \/ cacheThread[u].op # "none")

QuicTlsSecConfigAddRef(refs, k) == [refs EXCEPT ![k] = @ + 1]

QuicTlsSecConfigRelease(refs, k) == [refs EXCEPT ![k] = @ - 1]

(***************************************************************************)
(* QuicSessionServerCacheGetState, lines 386-410.                          *)
(***************************************************************************)
\* a get that does not wait for the writer
CacheGetCallUnlocked(t, name) ==
    /\ CacheRunning
    /\ cacheThread[t].pc = "idle"
    /\ CacheTurn(t)
    /\ cacheOps < MaxCacheOps
    /\ cacheOps' = cacheOps + 1
    /\ ServerCacheLock' = [ServerCacheLock EXCEPT !.Shared = @ + 1]
    /\ cacheThread' = [cacheThread EXCEPT ![t] =
            [IdleCacheThread EXCEPT !.pc = "g_read", !.op = "get", !.ServerName = name,
                                    !.Expected = cacheHist.stored[name],
                                    !.ExpectedCalled = cacheHist.called[name],
                                    !.ExpectedConfig = cacheHist.config[name]]]
    /\ UNCHANGED <<ServerCache, SecConfigRefs, cacheHist, memberVars>>

\* lines 386-389: the call, up to holding the lock shared
CacheGetCall(t, name) ==
    /\ CacheRunning
    /\ cacheThread[t].pc = "idle"
    /\ CacheTurn(t)
    /\ cacheOps < MaxCacheOps
    /\ QuicRwLockSharedFree(ServerCacheLock)
    /\ cacheOps' = cacheOps + 1
    /\ ServerCacheLock' = [ServerCacheLock EXCEPT !.Shared = @ + 1]
    /\ cacheThread' = [cacheThread EXCEPT ![t] =
            [IdleCacheThread EXCEPT !.pc = "g_read", !.op = "get", !.ServerName = name,
                                    !.Expected = cacheHist.stored[name],
                                    !.ExpectedCalled = cacheHist.called[name],
                                    !.ExpectedConfig = cacheHist.config[name]]]
    /\ UNCHANGED <<ServerCache, SecConfigRefs, cacheHist, memberVars>>

\* lines 391-410: look up, copy out, release the lock, return
CacheGetRead(t) ==
    LET name == cacheThread[t].ServerName
        Cache == QuicSessionServerCacheLookup(
                    ServerCache, Len(name), name, QuicHashSimple(Len(name), name))
    IN
    /\ CacheRunning
    /\ cacheThread[t].pc = "g_read"
    /\ IF Cache = 0
       THEN /\ cacheThread' = [cacheThread EXCEPT ![t].pc = "idle"]
            /\ ServerCacheLock' = [ServerCacheLock EXCEPT !.Shared = @ - 1]
            /\ UNCHANGED SecConfigRefs
       ELSE IF ServerCache[Cache].SecConfig = "WILD"
       THEN \* QuicTlsSecConfigAddRef through a pointer that is no address
            /\ cacheThread' = [cacheThread EXCEPT ![t].pc = "fault"]
            /\ UNCHANGED <<ServerCacheLock, SecConfigRefs>>
       ELSE /\ cacheThread' = [cacheThread EXCEPT
                    ![t].pc = "idle",
                    ![t].Found = TRUE,
                    ![t].OutVersion = ServerCache[Cache].QuicVersion,
                    ![t].OutParameters = ServerCache[Cache].TransportParameters,
                    ![t].OutSecConfig = ServerCache[Cache].SecConfig,
                    ![t].Matched = ServerCache[Cache].ServerName]
            /\ SecConfigRefs' =
                    IF ServerCache[Cache].SecConfig # NULL
                    THEN QuicTlsSecConfigAddRef(SecConfigRefs, ServerCache[Cache].SecConfig)
                    ELSE SecConfigRefs
            /\ ServerCacheLock' = [ServerCacheLock EXCEPT !.Shared = @ - 1]
    /\ UNCHANGED <<ServerCache, cacheOps, cacheHist, memberVars>>

(***************************************************************************)
(* QuicSessionServerCacheSetState and ...SetStateInternal, lines 425-471.  *)
(***************************************************************************)
\* lines 484-490 and 425-427: the call, up to holding the lock exclusive
CacheSetCall(t, name, Version, Parameters, SecConfig) ==
    /\ CacheRunning
    /\ cacheThread[t].pc = "idle"
    /\ CacheTurn(t)
    /\ cacheOps < MaxCacheOps
    /\ QuicRwLockExclusiveFree(ServerCacheLock)
    /\ cacheOps' = cacheOps + 1
    /\ ServerCacheLock' = [ServerCacheLock EXCEPT !.Exclusive = TRUE]
    /\ cacheThread' = [cacheThread EXCEPT ![t] =
            [IdleCacheThread EXCEPT !.pc = "s_write", !.op = "set", !.ServerName = name,
                                    !.QuicVersion = Version, !.Parameters = Parameters,
                                    !.SecConfig = SecConfig]]
    /\ UNCHANGED <<ServerCache, SecConfigRefs, cacheHist, memberVars>>

\* the history after a set of the thread's values that was stored
\* (sets counts the stored sets of a name, up to two)
SetStored(t, created) ==
    LET me == cacheThread[t]
        v == [QuicVersion |-> me.QuicVersion, TransportParameters |-> me.Parameters]
    IN [cacheHist EXCEPT
            !.stored[me.ServerName] = v,
            !.called[me.ServerName] = v,
            !.sets[me.ServerName] = IF @ < 2 THEN @ + 1 ELSE @,
            !.config[me.ServerName] =
                IF created \/ me.SecConfig # NULL THEN me.SecConfig ELSE @]

SetReturned(t) == [IdleCacheThread EXCEPT !.op = "set"]

\* lines 448-460: the new entry; the field SecConfig keeps what the memory
\* held when no configuration is given
NewCacheEntry(me, uninit) ==
    [ServerName |-> me.ServerName,
     ServerNameLength |-> Len(me.ServerName),
     QuicVersion |-> me.QuicVersion,
     TransportParameters |-> me.Parameters,
     SecConfig |-> IF me.SecConfig # NULL THEN me.SecConfig ELSE uninit,
     Hash |-> 0]

\* lines 429-437: look up and, for an entry found, store the version
CacheSetFound(t) ==
    LET me == cacheThread[t]
        Cache == QuicSessionServerCacheLookup(
                    ServerCache, Len(me.ServerName), me.ServerName,
                    QuicHashSimple(Len(me.ServerName), me.ServerName))
    IN
    /\ CacheRunning
    /\ me.pc = "s_write"
    /\ Cache # 0
    /\ ServerCache' = [ServerCache EXCEPT ![Cache].QuicVersion = me.QuicVersion]
    /\ cacheThread' = [cacheThread EXCEPT ![t].pc = "s_rest", ![t].Cache = Cache]
    /\ UNCHANGED <<ServerCacheLock, SecConfigRefs, cacheOps, cacheHist, memberVars>>

\* lines 438-444 and 471: the parameters and the configuration, then unlock
CacheSetRest(t) ==
    LET me == cacheThread[t]
        Old == ServerCache[me.Cache].SecConfig
    IN
    /\ CacheRunning
    /\ me.pc = "s_rest"
    /\ IF me.SecConfig # NULL /\ Old = "WILD"
       THEN \* QuicTlsSecConfigRelease through a pointer that is no address
            /\ cacheThread' = [cacheThread EXCEPT ![t].pc = "fault"]
            /\ UNCHANGED <<ServerCache, ServerCacheLock, SecConfigRefs, cacheHist>>
       ELSE /\ ServerCache' = [ServerCache EXCEPT
                    ![me.Cache].TransportParameters = me.Parameters,
                    ![me.Cache].SecConfig = IF me.SecConfig # NULL THEN me.SecConfig ELSE @]
            /\ SecConfigRefs' =
                    IF me.SecConfig = NULL THEN SecConfigRefs
                    ELSE QuicTlsSecConfigAddRef(
                            IF Old # NULL THEN QuicTlsSecConfigRelease(SecConfigRefs, Old)
                                          ELSE SecConfigRefs,
                            me.SecConfig)
            /\ ServerCacheLock' = [ServerCacheLock EXCEPT !.Exclusive = FALSE]
            /\ cacheHist' = SetStored(t, FALSE)
            /\ cacheThread' = [cacheThread EXCEPT ![t] = SetReturned(t)]
    /\ UNCHANGED <<cacheOps, memberVars>>

\* lines 429-434, 448-460 and 471: no entry found, one is allocated, filled
\* and inserted
CacheSetCreate(t, uninit) ==
    LET me == cacheThread[t]
        Hash == QuicHashSimple(Len(me.ServerName), me.ServerName)
        Cache == QuicSessionServerCacheLookup(
                    ServerCache, Len(me.ServerName), me.ServerName, Hash)
    IN
    /\ CacheRunning
    /\ me.pc = "s_write"
    /\ Cache = 0
    /\ me.SecConfig # NULL => uninit = NULL
    /\ ServerCache' = QuicHashtableInsert(ServerCache, NewCacheEntry(me, uninit), Hash)
    /\ SecConfigRefs' = IF me.SecConfig # NULL
                        THEN QuicTlsSecConfigAddRef(SecConfigRefs, me.SecConfig)
                        ELSE SecConfigRefs
    /\ ServerCacheLock' = [ServerCacheLock EXCEPT !.Exclusive = FALSE]
    /\ cacheHist' = SetStored(t, TRUE)
    /\ cacheThread' = [cacheThread EXCEPT ![t] = SetReturned(t)]
    /\ UNCHANGED <<cacheOps, memberVars>>

\* lines 429-434, 448, 462-471: no entry found and the allocation fails
CacheSetAllocFailure(t) ==
    LET me == cacheThread[t]
        Cache == QuicSessionServerCacheLookup(
                    ServerCache, Len(me.ServerName), me.ServerName,
                    QuicHashSimple(Len(me.ServerName), me.ServerName))
    IN
    /\ CacheRunning
    /\ me.pc = "s_write"
    /\ Cache = 0
    /\ ServerCacheLock' = [ServerCacheLock EXCEPT !.Exclusive = FALSE]
    /\ cacheHist' = [cacheHist EXCEPT !.called[me.ServerName] =
            [QuicVersion |-> me.QuicVersion, TransportParameters |-> me.Parameters]]
    /\ cacheThread' = [cacheThread EXCEPT ![t] = SetReturned(t)]
    /\ UNCHANGED <<ServerCache, SecConfigRefs, cacheOps, memberVars>>

CacheNext(t) ==
    \/ \E name \in ServerNames : CacheGetCall(t, name)
    \/ CacheGetRead(t)
    \/ \E name \in ServerNames, in \in CacheInputs :
            CacheSetCall(t, name, in.QuicVersion, in.TransportParameters, in.SecConfig)
    \/ CacheSetFound(t)
    \/ CacheSetRest(t)
    \/ \E uninit \in UninitializedPointers : CacheSetCreate(t, uninit)
    \/ CacheSetAllocFailure(t)

Init == InitMembers /\ InitCache

Next ==
    \/ OpenNext
    \/ \E c \in Conns : ConnNext(c)
    \/ \E t \in Callers : CallerNext(t)

Spec == Init /\ [][Next]_vars

\* a thread inside a call goes on running, and a connection that is
\* registered with a session eventually unregisters
RegisteredUnregisters(c) == conn[c].Session # NULL /\ UnregisterCall(c)

Fairness ==
    /\ \A c \in Conns :
            /\ WF_vars(UnregisterRemove(c))
            /\ WF_vars(UnregisterRelease(c))
            /\ WF_vars(RegisterAcquire(c))
            /\ WF_vars(RegisterInsert(c))
            /\ WF_vars(RegisteredUnregisters(c))
    /\ \A t \in Callers :
            /\ WF_vars(ShutdownLock(t))
            /\ WF_vars(ShutdownVisit(t))
            /\ WF_vars(ShutdownUnlock(t))
            /\ WF_vars(CloseRundown(t))
            /\ WF_vars(CloseWaitDone(t))
            /\ WF_vars(MsQuicSessionFree(t))

SpecLive == Init /\ [][Next]_vars /\ Fairness

NextCache == \E t \in CacheThreads : CacheNext(t)

SpecCache == Init /\ [][NextCache]_vars

(***************************************************************************)
(* Properties of the membership specification.                             *)
(***************************************************************************)
Members(s) == SeqToSet(sess[s].Connections)

\* no register or unregister call is in progress
Quiescent == \A c \in Conns : connThread[c].pc = "idle"

\* the requests queued from the connection's reserved slot
ShutdownRequests(c) == Len(SelectSeq(conn[c].OperQueue, LAMBDA o : o = "BackUpOper"))

\* the walk of thread t has passed every entry and still holds the lock
WalkComplete(t) ==
    /\ caller[t].pc = "sd_walk"
    /\ caller[t].Entry > Len(sess[caller[t].Session].Connections)

\* C1 (as claimed): whenever MsQuicSessionClose has returned from
\* QuicRundownReleaseAndWait and stands at MsQuicSessionFree, the session's
\* Connections list is empty and its guard count is zero.
C1_FreeOnlyWhenEmpty ==
    \A t \in Callers :
        caller[t].pc = "cl_free" =>
            /\ QuicListIsEmpty(sess[caller[t].Session].Connections)
            /\ sess[caller[t].Session].Rundown.RefCount = 0

\* C2 (as claimed): with one session in use, once every register and unregister
\* call has completed the session's list holds exactly the connections whose
\* last call was a register, and its length is the number of register calls
\* less the number of unregister calls.
C2_SizeIsCallDifference ==
    \A s \in Sessions :
        ( /\ sess[s].State = "open"
          /\ \A o \in Sessions \ {s} : sess[o].State = "unalloc"
          /\ Quiescent )
        => /\ Members(s) = { c \in Conns : hist.lastCall[c] = s }
           /\ Len(sess[s].Connections) = hist.netCalls

\* C2 (amended): once every register and unregister call has completed, each
\* session's list holds exactly the connections whose last call was a register
\* on it, each once, and its length is the number of completed registrations on
\* the session less the number of unregistrations that removed a connection
\* from it (an unregister call on a connection without a session removes
\* nothing; a register on a registered connection unregisters it first).
C2_MembershipIsNetRegistrations ==
    \A s \in Sessions :
        (sess[s].State = "open" /\ Quiescent)
        => /\ Members(s) = { c \in Conns : hist.lastCall[c] = s }
           /\ Len(sess[s].Connections) = Cardinality(Members(s))
           /\ Len(sess[s].Connections) = hist.net[s]

\* two connections registered, one of them unregistered again
C2_Witness ==
    \E s \in Sessions, c \in Conns :
        /\ Quiescent
        /\ sess[s].State = "open"
        /\ Len(sess[s].Connections) = 1
        /\ hist.net[s] = 1
        /\ hist.lastCall[c] = "unregister"
        /\ calls = 3
        /\ hist.netCalls = 1

\* C3: whatever shutdown calls run, a connection has at most one request
\* queued from its reserved slot, exactly when its slot-in-use flag is set; and a
\* step queues a request for a connection only if it is the step that took the
\* flag from 0 to 1.
C3_AtMostOneRequest ==
    /\ [](\A c \in Conns : /\ conn[c].BackUpOperUsed \in {0, 1}
                          /\ ShutdownRequests(c) = conn[c].BackUpOperUsed)
    /\ [][\A c \in Conns :
            conn'[c].OperQueue # conn[c].OperQueue
            => /\ conn[c].BackUpOperUsed = 0
               /\ conn'[c].BackUpOperUsed = 1]_vars

\* a walk has passed a connection whose slot another call had taken
C3_Witness ==
    \E t \in Callers :
        /\ WalkComplete(t)
        /\ caller[t].op = "shutdown"
        /\ ~caller[t].AllUnused
        /\ \E c \in Members(caller[t].Session) : ShutdownRequests(c) = 1

\* C4: when a shutdown call with an error code in range has walked a session
\* whose members all had an unused slot, every connection that was a member
\* when the walk began has exactly one request queued, at the head of its queue,
\* carrying the call's flags and error code.
C4_EveryMemberGetsTheRequest ==
    \A t \in Callers :
        (WalkComplete(t) /\ caller[t].AllUnused)
        => /\ caller[t].Walked = sess[caller[t].Session].Connections
           /\ \A c \in SeqToSet(caller[t].Walked) :
                /\ ShutdownRequests(c) = 1
                /\ Head(conn[c].OperQueue) = "BackUpOper"
                /\ conn[c].BackUpOperUsed = 1
                /\ conn[c].BackUpOper.Type = "API_CALL"
                /\ conn[c].BackUpOper.ApiType = "CONN_SHUTDOWN"
                /\ conn[c].BackUpOper.Flags = caller[t].Flags
                /\ conn[c].BackUpOper.ErrorCode = caller[t].ErrorCode
                /\ ~ExceedsUint62Max(caller[t].ErrorCode)

\* a shutdown call has walked two members with unused slots
C4_Witness ==
    \E t \in Callers :
        /\ WalkComplete(t)
        /\ caller[t].op = "shutdown"
        /\ caller[t].AllUnused
        /\ Len(caller[t].Walked) = 2

\* C5 (as claimed): a register whose QuicRundownAcquire failed, the guard
\* draining, does not add its connection to the session's list.
C5_FailedAcquireNotAdded ==
    [][\A c \in Conns :
        (connThread[c].pc = "r_insert" /\ ~connThread[c].Success)
        => c \notin SeqToSet(sess'[connThread[c].Session].Connections)]_vars


(***************************************************************************)
(* Properties of the cache specification.                                  *)
(***************************************************************************)
GetReturned(t) == cacheThread[t].pc = "idle" /\ cacheThread[t].op = "get"

GetOutput(t) ==
    [QuicVersion |-> cacheThread[t].OutVersion,
     TransportParameters |-> cacheThread[t].OutParameters]

\* C6, as stated: a get that follows a set of the same identity returns found,
\* with the version and the parameters of the most recent set call.
C6_GetReturnsLastSetCall ==
    \A t \in CacheThreads :
        (GetReturned(t) /\ cacheThread[t].ExpectedCalled # NoValue) =>
            /\ cacheThread[t].Found
            /\ GetOutput(t) = cacheThread[t].ExpectedCalled

\* C6: a get that follows a set of the same identity that stored its values
\* (it found the entry, or its allocation of a new entry succeeded) returns
\* found, with exactly the version and the parameters of the most recent such
\* set, never a mix of two sets, whatever the interleaving.
C6_GetReturnsLastStoredSet ==
    \A t \in CacheThreads :
        (GetReturned(t) /\ cacheThread[t].Expected # NoValue) =>
            /\ cacheThread[t].Found
            /\ GetOutput(t) = cacheThread[t].Expected

C6_Witness ==
    \E t \in CacheThreads :
        /\ GetReturned(t)
        /\ cacheThread[t].Found
        /\ cacheHist.sets[cacheThread[t].ServerName] >= 2
        /\ GetOutput(t) = cacheThread[t].Expected

\* C7: a get of an entry that was created without a security configuration,
\* and was given none since, returns NULL for the configuration.
C7_NullConfigReturnsNull ==
    \A t \in CacheThreads :
        (GetReturned(t) /\ cacheThread[t].Found /\ cacheThread[t].ExpectedConfig = NULL) =>
            cacheThread[t].OutSecConfig = NULL

SameIdentity(a, b) ==
    a.ServerNameLength = b.ServerNameLength /\ a.ServerName = b.ServerName

\* C8: the cache never holds two entries for one identity; an entry, once
\* inserted, keeps its place and its identity (a set of an identity present
\* updates it in place, and nothing removes it), and every identity stored
\* is found by a lookup.
C8_OneEntryPerIdentity ==
    /\ [](/\ \A i, j \in 1 .. Len(ServerCache) :
                i # j => ~SameIdentity(ServerCache[i], ServerCache[j])
          /\ \A n \in ServerNames :
                cacheHist.sets[n] > 0 =>
                    LET Cache == QuicSessionServerCacheLookup(
                                    ServerCache, Len(n), n, QuicHashSimple(Len(n), n))
                    IN Cache # 0 /\ ServerCache[Cache].ServerName = n)
    /\ [][/\ Len(ServerCache') >= Len(ServerCache)
          /\ \A i \in 1 .. Len(ServerCache) :
                SameIdentity(ServerCache'[i], ServerCache[i])
          /\ \A t \in CacheThreads :
                cacheThread[t].pc = "s_rest" => Len(ServerCache') = Len(ServerCache)]_vars

C8_Witness ==
    /\ Len(ServerCache) = 2
    /\ \E n \in ServerNames : cacheHist.sets[n] >= 2

\* another identity with the same hash is stored
CollidingStored(name) ==
    \E i \in 1 .. Len(ServerCache) :
        /\ ServerCache[i].ServerName # name
        /\ ServerCache[i].Hash = QuicHashSimple(Len(name), name)

\* C9: identities whose names hash alike do not interfere: a get of an
\* identity never stored returns not found though a colliding one is stored,
\* a get that finds an entry finds the one whose length and bytes are those
\* of the name asked for, and returns that identity's own values.
C9_CollidingIdentitiesApart ==
    \A t \in CacheThreads :
        GetReturned(t) =>
            /\ cacheThread[t].Expected = NoValue => ~cacheThread[t].Found
            /\ cacheThread[t].Found =>
                /\ Len(cacheThread[t].Matched) = Len(cacheThread[t].ServerName)
                /\ cacheThread[t].Matched = cacheThread[t].ServerName
                /\ CollidingStored(cacheThread[t].ServerName) =>
                        GetOutput(t) = cacheThread[t].Expected

C9_Witness ==
    \E t \in CacheThreads :
        /\ GetReturned(t)
        /\ ~cacheThread[t].Found
        /\ \E i \in 1 .. Len(ServerCache) :
            /\ ServerCache[i].Hash =
                    QuicHashSimple(Len(cacheThread[t].ServerName), cacheThread[t].ServerName)
            /\ ServerCache[i].ServerNameLength = Len(cacheThread[t].ServerName)
            /\ cacheHist.sets[ServerCache[i].ServerName] > 0

\* C10: a get changes reference counts only when it finds an entry that has
\* a configuration, and then adds exactly one reference to that
\* configuration; a get that finds nothing writes no output and changes no
\* count, and a get of an entry without a configuration changes no count.
C10_RefCountsOnlyOnFoundPath ==
    [][\A t \in CacheThreads :
        (cacheThread[t].pc = "g_read" /\ cacheThread'[t].pc = "idle") =>
            IF ~cacheThread'[t].Found
            THEN /\ SecConfigRefs' = SecConfigRefs
                 /\ cacheThread'[t].OutVersion = IdleCacheThread.OutVersion
                 /\ cacheThread'[t].OutParameters = IdleCacheThread.OutParameters
                 /\ cacheThread'[t].OutSecConfig = IdleCacheThread.OutSecConfig
            ELSE IF cacheThread[t].ExpectedConfig = NULL
            THEN SecConfigRefs' = SecConfigRefs
            ELSE SecConfigRefs' =
                    QuicTlsSecConfigAddRef(SecConfigRefs, cacheThread[t].ExpectedConfig)]_vars

(***************************************************************************)
(* Further properties of the membership specification.                     *)
(***************************************************************************)
\* C11: a shutdown call whose error code exceeds 2^62 - 1 returns at once: it
\* never holds the membership lock or walks the list, and the step of the call
\* changes no connection (flag, slot, queue) and no session.
C11_OutOfRangeNoEffect ==
    /\ [](\A t \in Callers :
            (caller[t].op = "shutdown" /\ caller[t].ErrorCode.hi > 0) =>
                caller[t].pc = "done")
    /\ [][\A t \in Callers :
            (caller[t].pc = "idle" /\ caller'[t].op = "shutdown"
                /\ caller'[t].ErrorCode.hi > 0) =>
                    conn' = conn /\ sess' = sess]_vars

C11_Witness ==
    \E t \in Callers, s \in Sessions, c \in Conns :
        /\ caller[t].pc = "done" /\ caller[t].op = "shutdown"
        /\ caller[t].ErrorCode.hi > 0
        /\ c \in Members(s)
        /\ conn[c].BackUpOperUsed = 0
        /\ ShutdownRequests(c) = 0

\* C12: MsQuicSessionOpen with a null or wrongly-typed registration handle
\* returns invalid-argument, and with a failing allocation out-of-memory; in
\* both cases no session comes to exist and the registration's Sessions list
\* is unchanged.  On success the new session is appended to the registration's
\* list, with no member, a guard count of one and the registration as owner.
C12_OpenFailsCleanly ==
    [][\A s \in OwnedSessions, h \in RegistrationHandles,
          out \in {NULL, "OUT"}, allocOk \in BOOLEAN :
        MsQuicSessionOpen(s, h, out, allocOk) =>
            /\ (h = NULL \/ h # TheRegistration) =>
                    openStatus'[s] = "INVALID_PARAMETER"
            /\ (h = TheRegistration /\ out # NULL /\ ~allocOk) =>
                    openStatus'[s] = "OUT_OF_MEMORY"
            /\ openStatus'[s] # "SUCCESS" =>
                    /\ sess' = sess
                    /\ reg' = reg
            /\ openStatus'[s] = "SUCCESS" =>
                    /\ h = TheRegistration /\ out # NULL /\ allocOk
                    /\ reg'.Sessions = Append(reg.Sessions, s)
                    /\ s \notin SeqToSet(reg.Sessions)
                    /\ sess'[s].State = "open"
                    /\ sess'[s].Registration = TheRegistration
                    /\ sess'[s].Connections = << >>
                    /\ sess'[s].Rundown = [RefCount |-> 1, Draining |-> FALSE]]_vars

C12_Witness ==
    \E s \in OwnedSessions :
        /\ openStatus[s] = "OUT_OF_MEMORY"
        /\ sess[s].State = "unalloc"
        /\ s \notin SeqToSet(reg.Sessions)

\* C13: MsQuicSessionClose of the session without a registration walks the
\* whole membership with a silent shutdown of error code 0 (every member then
\* has its slot in use, and each request the walk queues carries SILENT and 0
\* at the head of the queue) before it starts draining the guard; close of an
\* owned session never shuts down, and unlinks the session from the
\* registration's list before draining.  Draining starts only from line 195.
C13_CloseShutsDownTheUnownedOnly ==
    /\ [](\A t \in Callers :
            (caller[t].op = "close" /\ caller[t].pc \in {"sd_lock", "sd_walk"}) =>
                /\ sess[caller[t].Session].Registration = NULL
                /\ caller[t].Flags = FlagSilent
                /\ caller[t].ErrorCode = [hi |-> 0, lo |-> 0]
                /\ ~sess[caller[t].Session].Rundown.Draining)
    /\ [][\A t \in Callers :
            /\ (caller'[t].pc = "cl_rundown" /\ caller[t].pc # "cl_rundown") =>
                    LET s == caller'[t].Session IN
                    IF sess[s].Registration = NULL
                    THEN /\ WalkComplete(t)
                         /\ caller[t].Walked = sess[s].Connections
                         /\ \A c \in Members(s) : conn[c].BackUpOperUsed = 1
                         /\ ~sess[s].Rundown.Draining
                    ELSE /\ caller[t].pc = "idle"
                         /\ s \in SeqToSet(reg.Sessions)
                         /\ s \notin SeqToSet(reg'.Sessions)
                         /\ conn' = conn
                         /\ ~sess[s].Rundown.Draining
            /\ (caller[t].op = "close" /\ caller[t].pc = "sd_walk"
                    /\ caller'[t] # caller[t]) =>
                    \A c \in Conns :
                        conn'[c].OperQueue # conn[c].OperQueue =>
                            /\ conn'[c].BackUpOper.Flags = FlagSilent
                            /\ conn'[c].BackUpOper.ErrorCode = [hi |-> 0, lo |-> 0]
                            /\ Head(conn'[c].OperQueue) = "BackUpOper"
            /\ \A s \in Sessions :
                    (~sess[s].Rundown.Draining /\ sess'[s].Rundown.Draining
                        /\ caller'[t] # caller[t]) =>
                            caller[t].pc = "cl_rundown" /\ caller[t].Session = s]_vars

C13_Witness ==
    \E t \in Callers, c \in Conns :
        /\ caller[t].op = "close" /\ caller[t].pc = "cl_wait"
        /\ sess[caller[t].Session].Registration = NULL
        /\ c \in Members(caller[t].Session)
        /\ ShutdownRequests(c) = 1
        /\ conn[c].BackUpOper.Flags = FlagSilent

\* the connections registered with s can no longer unregister: the run's
\* calls are used up
CallsUsedUp(s) ==
    /\ calls = MaxCalls
    /\ \E c \in Conns : connThread[c].pc = "idle" /\ conn[c].Session = s

\* C14, as stated for the call that finds the membership empty: when
\* MsQuicSessionClose enters QuicRundownReleaseAndWait with an empty
\* Connections list, the wait is over at once.
C14_EmptyMembershipNeverBlocks ==
    [][\A t \in Callers :
        (caller[t].pc = "cl_rundown" /\ caller'[t].pc = "cl_wait"
            /\ QuicListIsEmpty(sess[caller[t].Session].Connections)) =>
                QuicRundownWaitDone(sess'[caller[t].Session].Rundown)]_vars

\* no register or unregister call is at work on session s
NoCallOn(s) == \A c \in Conns : ConnTouches(c) # s

\* C14: a close that waits in QuicRundownReleaseAndWait returns, provided the
\* process lives and every connection registered with the session unregisters;
\* it does not wait at all when, entering the wait, the membership is empty
\* and no register or unregister call is at work on the session; and while
\* it waits the membership lock is held only by a shutdown walk, never by the
\* closing thread, so unregister calls go on.
C14_CloseReturns ==
    /\ \A t \in Callers :
        (caller[t].pc = "cl_wait") ~>
            (caller[t].pc # "cl_wait" \/ ~Running \/ CallsUsedUp(caller[t].Session))
    /\ [][\A t \in Callers :
            (caller[t].pc = "cl_rundown" /\ caller'[t].pc = "cl_wait"
                /\ QuicListIsEmpty(sess[caller[t].Session].Connections)
                /\ NoCallOn(caller[t].Session)) =>
                    QuicRundownWaitDone(sess'[caller[t].Session].Rundown)]_vars
    /\ [](\A t \in Callers :
            caller[t].pc = "cl_wait" =>
                (sess[caller[t].Session].ConnectionsLock =>
                    \E u \in Callers : u # t /\ caller[u].pc = "sd_walk"
                                       /\ caller[u].Session = caller[t].Session))

C14_Witness ==
    \E t \in Callers, c \in Conns :
        /\ caller[t].pc = "cl_wait"
        /\ ~QuicRundownWaitDone(sess[caller[t].Session].Rundown)
        /\ connThread[c].pc = "u_release"
        /\ connThread[c].Old = caller[t].Session

\* C15: whenever no register or unregister call is at work on an allocated
\* session and close has not started draining it, the session's guard count
\* is 1 (the session's own token) plus the number of connections in its
\* Connections list: one token for each member.
C15_GuardCountsMembers ==
    \A s \in Sessions :
        (sess[s].State = "open" /\ NoCallOn(s) /\ ~sess[s].Rundown.Draining) =>
            sess[s].Rundown.RefCount = 1 + Len(sess[s].Connections)

C15_Witness ==
    \E s \in Sessions :
        /\ sess[s].State = "open" /\ NoCallOn(s) /\ ~sess[s].Rundown.Draining
        /\ Len(sess[s].Connections) = 2
        /\ hist.netCalls = 2

\* how often connection c stands in the Connections list of session s
Occurrences(s, c) == Len(SelectSeq(sess[s].Connections, LAMBDA x : x = c))

\* the sessions that have connection c as a member
SessionsOf(c) == { s \in Sessions : c \in Members(s) }

\* C16: a connection is in at most one session's list, and at most once; a
\* register call reaches its acquire (line 316) only with the connection out
\* of every list, the release at line 342 takes one token from the old
\* session's guard, and when the call returns the connection is in the new
\* session's list only, once, with its back-reference set to that session,
\* also when the new session is the old one.
C16_MemberOfOneSession ==
    /\ [](\A c \in Conns :
            /\ Cardinality(SessionsOf(c)) <= 1
            /\ \A s \in Sessions : Occurrences(s, c) <= 1
            /\ (connThread[c].pc = "idle" /\ SessionsOf(c) # {}) =>
                    SessionsOf(c) = {conn[c].Session}
            /\ connThread[c].pc \in {"u_release", "r_acquire", "r_insert"} =>
                    SessionsOf(c) = {})
    /\ [][\A c \in Conns :
            /\ (connThread[c].pc = "u_release"
                    /\ connThread'[c].pc \in {"idle", "r_acquire"}) =>
                    sess'[connThread[c].Old].Rundown.RefCount =
                        sess[connThread[c].Old].Rundown.RefCount - 1
            /\ (connThread[c].pc = "r_insert" /\ connThread'[c].pc = "idle") =>
                    /\ { s \in Sessions : c \in SeqToSet(sess'[s].Connections) }
                            = {connThread[c].Session}
                    /\ Len(SelectSeq(sess'[connThread[c].Session].Connections,
                                     LAMBDA x : x = c)) = 1
                    /\ conn'[c].Session = connThread[c].Session]_vars

C16_Witness ==
    \E c \in Conns :
        /\ connThread[c].op = "register"
        /\ connThread[c].pc = "u_release"
        /\ connThread[c].Old # NULL
        /\ connThread[c].Session # connThread[c].Old
        /\ SessionsOf(c) = {}

\* C17: QuicSessionUnregisterConnection on a connection with no session
\* returns at once and changes no session, connection or registration; on a
\* registered connection it clears the back-reference, removes the connection
\* from its session's list and releases one token, after which the
\* connection is in no list and has no session, so that a second call in a
\* row is the call that changes nothing.
C17_UnregisterIdempotent ==
    /\ [](\A c \in Conns :
            /\ (connThread[c].op = "unregister"
                    /\ connThread[c].pc \in {"u_remove", "u_release"}) =>
                        conn[c].Session = NULL
            /\ (connThread[c].pc = "idle" /\ hist.lastCall[c] = "unregister") =>
                        conn[c].Session = NULL /\ SessionsOf(c) = {})
    /\ [][\A c \in Conns :
            /\ UnregisterCall(c) =>
                    IF conn[c].Session = NULL
                    THEN /\ sess' = sess /\ conn' = conn /\ reg' = reg
                         /\ connThread'[c].pc = "idle"
                    ELSE /\ conn'[c].Session = NULL
                         /\ connThread'[c].pc = "u_remove"
                         /\ connThread'[c].Old = conn[c].Session
                         /\ sess' = sess
            /\ (connThread[c].op = "unregister" /\ connThread[c].pc = "u_remove"
                    /\ connThread'[c].pc = "u_release") =>
                    /\ Len(sess'[connThread[c].Old].Connections) =
                            Len(sess[connThread[c].Old].Connections) - 1
                    /\ c \notin SeqToSet(sess'[connThread[c].Old].Connections)
            /\ (connThread[c].op = "unregister" /\ connThread[c].pc = "u_release"
                    /\ connThread'[c].pc = "idle") =>
                    /\ sess'[connThread[c].Old].Rundown.RefCount =
                            sess[connThread[c].Old].Rundown.RefCount - 1
                    /\ conn'[c].Session = NULL]_vars

C17_Witness ==
    \E c \in Conns :
        /\ connThread[c].pc = "idle"
        /\ hist.lastCall[c] = "unregister"
        /\ calls = 3
        /\ hist.netCalls = -1
        /\ \A d \in Conns : d # c => hist.lastCall[d] = "none"
        /\ \A t \in Callers : caller[t].pc = "idle"
        /\ conn[c].Registration # NULL

\* C18: the cache holds one counted reference for each entry that was given
\* a security configuration.  A set of an entry found, with a configuration,
\* releases one reference of the configuration the entry was given before
\* (when it was given one) and adds one to the new; with no configuration it
\* leaves the entry's configuration and every count as they are and still
\* overwrites version and parameters; a set that creates an entry with a
\* configuration adds one reference, and one that creates it without adds
\* none.
C18_OneReferencePerEntry ==
    [][\A t \in CacheThreads :
        LET me == cacheThread[t]
            Given == cacheHist.config[me.ServerName]
        IN
        /\ (me.pc = "s_rest" /\ cacheThread'[t].pc # "s_rest") =>
                /\ cacheThread'[t].pc = "idle"
                /\ ServerCache'[me.Cache].QuicVersion = me.QuicVersion
                /\ ServerCache'[me.Cache].TransportParameters = me.Parameters
                /\ IF me.SecConfig # NULL
                   THEN /\ ServerCache'[me.Cache].SecConfig = me.SecConfig
                        /\ SecConfigRefs' =
                                QuicTlsSecConfigAddRef(
                                    IF Given # NULL
                                    THEN QuicTlsSecConfigRelease(SecConfigRefs, Given)
                                    ELSE SecConfigRefs,
                                    me.SecConfig)
                   ELSE /\ ServerCache'[me.Cache].SecConfig = ServerCache[me.Cache].SecConfig
                        /\ SecConfigRefs' = SecConfigRefs
        /\ (me.pc = "s_write" /\ Len(ServerCache') = Len(ServerCache) + 1) =>
                SecConfigRefs' =
                    IF me.SecConfig # NULL
                    THEN QuicTlsSecConfigAddRef(SecConfigRefs, me.SecConfig)
                    ELSE SecConfigRefs]_vars

\* C19: a step of MsQuicSessionShutdown changes, of the sessions, only the
\* ConnectionsLock it takes and gives back, and, of the connections, only
\* BackUpOperUsed, BackUpOper and OperQueue of the member its walk stands at:
\* every Connections list, every connection's Session and Registration,
\* every guard and the registration stay as they are, and so does every
\* thread of a connection, so that a register made later proceeds as
\* before.  The call touches a connection only while it holds the lock;
\* one inserted after the unlock is never written by it.
C19_ShutdownFrame ==
    [][\A t \in Callers :
        (caller'[t] # caller[t]
            /\ (caller[t].op = "shutdown" \/ caller'[t].op = "shutdown")) =>
            /\ \A s \in Sessions :
                /\ sess'[s].Connections = sess[s].Connections
                /\ sess'[s].Rundown = sess[s].Rundown
                /\ sess'[s].State = sess[s].State
                /\ sess'[s].Registration = sess[s].Registration
            /\ reg' = reg
            /\ connThread' = connThread
            /\ \A c \in Conns :
                /\ conn'[c].Session = conn[c].Session
                /\ conn'[c].Registration = conn[c].Registration
                /\ conn'[c].Settings = conn[c].Settings
                /\ conn'[c] # conn[c] =>
                    /\ caller[t].pc = "sd_walk"
                    /\ sess[caller[t].Session].ConnectionsLock
                    /\ caller[t].Entry <= Len(caller[t].Walked)
                    /\ c = caller[t].Walked[caller[t].Entry]
                    /\ c \in Members(caller[t].Session)]_vars

\* a shutdown call has walked one member and returned, and a connection
\* registered on the session afterwards has no request
C19_Witness ==
    \E t \in Callers, c, d \in Conns :
        /\ caller[t].pc = "done" /\ caller[t].op = "shutdown"
        /\ \A u \in Callers : u # t => caller[u].op = "none"
        /\ c # d
        /\ conn[c].Session # NULL
        /\ conn[d].Session = conn[c].Session
        /\ {c, d} \subseteq Members(conn[c].Session)
        /\ connThread[c].pc = "idle" /\ connThread[d].pc = "idle"
        /\ conn[d].BackUpOperUsed = 1 /\ ShutdownRequests(d) = 1
        /\ conn[c].BackUpOperUsed = 0 /\ ShutdownRequests(c) = 0

\* C20: QuicSessionRegisterConnection on a session that has a registration
\* takes one token of the registration's ConnectionRundown and stores the
\* registration in the connection; on a session without one it does
\* neither.  No other step of a connection's thread, those of
\* QuicSessionUnregisterConnection among them, changes the connection's
\* Registration or the count of ConnectionRundown, so that registering a
\* connection again adds a further token.
C20_RegistrationTokenPerRegister ==
    [][/\ \A c \in Conns :
            /\ (connThread[c].pc = "r_acquire" /\ connThread'[c].pc = "r_insert") =>
                    IF sess[connThread[c].Session].Registration # NULL
                    THEN /\ reg'.ConnectionRundown.RefCount =
                                reg.ConnectionRundown.RefCount + 1
                         /\ conn'[c].Registration = sess[connThread[c].Session].Registration
                    ELSE /\ reg' = reg
                         /\ conn'[c].Registration = conn[c].Registration
            /\ (connThread'[c] # connThread[c] /\ connThread[c].pc # "r_acquire") =>
                    /\ reg'.ConnectionRundown = reg.ConnectionRundown
                    /\ conn'[c].Registration = conn[c].Registration
       /\ reg'.ConnectionRundown # reg.ConnectionRundown =>
            \E c \in Conns : /\ connThread[c].pc = "r_acquire"
                             /\ connThread'[c].pc = "r_insert"
                             /\ sess[connThread[c].Session].Registration # NULL]_vars

\* one connection has made three calls, the last a register on a session of
\* the registration, and holds two tokens of the registration
C20_Witness ==
    \E c \in Conns :
        /\ connThread[c].pc = "idle"
        /\ calls = 3
        /\ hist.netCalls = 1
        /\ \A d \in Conns : d # c => hist.lastCall[d] = "none"
        /\ \A t \in Callers : caller[t].op = "none"
        /\ conn[c].Session # NULL
        /\ conn[c].Registration # NULL
        /\ sess[conn[c].Session].Registration # NULL
        /\ reg.ConnectionRundown.RefCount = QuicRundownInitialize.RefCount + 2
====
